---------------------------- MODULE Spec2Model ----------------------------
(***************************************************************************)
(* A model of the skopje ETL toolkit: the surrogate-key allocator          *)
(* (src/src/keymap.rs), the chunked downloader (src/src/extract/http.rs),  *)
(* the batch loader (src/src/load/pg.rs) and the fetch-or-insert idiom     *)
(* (src/src/extract/pg.rs).  Each component has a specification of its     *)
(* own (SpecKeyMap, SpecDownload, SpecLoad, SpecFetchOrInsert); the        *)
(* variables of the other components stay at their idle values.            *)
(*                                                                         *)
(* Machine integers are scaled down: PK stands for a signed primary-key    *)
(* type with the range PKMin..PKMax, u64 for 0..MaxU64, and CHUNK_SIZE is  *)
(* scaled with it.  Arithmetic that overflows either panics (a build with  *)
(* overflow checks) or wraps (a build without), chosen by overflow_checks. *)
(***************************************************************************)
EXTENDS Integers, Sequences, FiniteSets, TLC

VARIABLES
    overflow_checks,  \* the build profile: TRUE panics on overflow, FALSE wraps
    \* ---- KeyMap (keymap.rs)
    bimap,            \* the bijection, a set of <<key, object>> pairs
    next_key,         \* the cursor
    km_status,        \* "unbuilt" | "ready" | "panicked" | "diverged"
    km_last,          \* the last completed operation: "none" | "from" | "transact" | "remove"
    ret_key,          \* what the last transact returned (NoKey before any)
    \* ---- KeyMap::pg_insert / KeyMap::pg_fetch (keymap.rs)
    db_rows,          \* the backing table: the <<key, object>> rows durably in it
    pg_pc,            \* pg_insert: "idle" | "client" | "prepared" | "tx" | "done"
    pg_result,        \* pg_insert: "none" | "Ok" | "Err"
    pg_tx,            \* rows written inside pg_insert's open transaction
    pg_calls,         \* pg_insert: how often prepare, transaction, execute, commit ran
                      \* and how many of these calls failed
    pg_conn,          \* pg_insert holds a pooled connection
    fe_pc,            \* pg_fetch: "idle" | "client" | "done"
    fe_result,        \* pg_fetch: "none" | "Ok" | "Err" | "Panic"
    fe_bimap,         \* the bijection of the KeyMap pg_fetch returned
    fe_next_key,      \* the cursor of the KeyMap pg_fetch returned
    \* ---- download_file (extract/http.rs)
    dl_pc,            \* "start" | "fetched" | "joining" | "returned"
    dl_result,        \* "none" | "Ok" | "Err" | "Panic"
    file_size,        \* the parsed Content-Length, 0 when absent or unparsable
    size_known,       \* whether the header was present and parsed
    chunks,           \* the spawned tasks' <<start, end>>, in spawn order
    t_pc,             \* per task: "spawned" | "request" | "body" | "seek" | "write" | "done"
    t_res,            \* per task: what download_chunk returned: "none" | "ok" | "err"
    t_resp,           \* per task: how the server answered: "none" | "206" | "other" | "error"
    lock,             \* the holder of the file mutex, NoTask when free
    file,             \* the destination file's bytes
    file_pos,         \* the shared handle's cursor
    joined,           \* how many tasks the join loop has awaited
    \* ---- insert / copy (load/pg.rs)
    ld_op,            \* the call under study: "insert" | "copy", or "pg_insert"
                      \* when the run is a KeyMap::pg_insert instead
    ld_pc,            \* "start" | "client" | "prepared" | "tx" | "sink" | "finished" | "done"
    ld_result,        \* "none" | "Ok" | "Err"
    records,          \* the batch: each record's row arity
    exec_idx,         \* how many records the loop has consumed
    pending,          \* record indices written inside the open transaction
    committed,        \* record indices durably in the table
    n_prepare, n_tx, n_exec, n_commit,
    sink,             \* the copy stream: "none" | "clean" | "broken"
    write_failed,     \* copy: some writer.write returned Err
    conn_out,         \* a pooled connection is checked out
    \* ---- fetch_or_insert (extract/pg.rs)
    unique,           \* the table has a uniqueness constraint
    ins_returning,    \* the insert statement yields the inserted row
    table0,           \* rows matching the parameters before the calls
    table,            \* number of rows matching the parameters
    f_pc,             \* per caller: "start" | "fetch1" | "insert" | "fetch2" | "done"
    f_ret,            \* per caller: "none" | "Ok" | "Err" | "Panic"
    n_fetch, n_insert,
    f1, ins_res, f2,  \* per caller: outcome of the first fetch, the insert, the second fetch
    faults            \* injected store faults so far

pgVars == <<db_rows, pg_pc, pg_result, pg_tx, pg_calls, pg_conn,
            fe_pc, fe_result, fe_bimap, fe_next_key>>
kmVars == <<bimap, next_key, km_status, km_last, ret_key, pgVars>>
dlVars == <<dl_pc, dl_result, file_size, size_known, chunks, t_pc, t_res, t_resp,
            lock, file, file_pos, joined>>
ldVars == <<ld_op, ld_pc, ld_result, records, exec_idx, pending, committed,
            n_prepare, n_tx, n_exec, n_commit, sink, write_failed, conn_out>>
foiVars == <<unique, ins_returning, table0, table, f_pc, f_ret, n_fetch, n_insert,
             f1, ins_res, f2, faults>>
vars == <<overflow_checks, kmVars, dlVars, ldVars, foiVars>>

(***************************************************************************)
(* Bounds of the model.                                                    *)
(***************************************************************************)
PKMax == 2          \* PK::max_value() of the scaled key type
NumObj == 3         \* how many distinct objects exist
MaxU64 == 15        \* u64::MAX of the scaled unsigned type
MaxRecords == 3     \* longest batch handed to insert / copy
MaxFaults == 2      \* store faults injected into fetch_or_insert runs

(***************************************************************************)
(* KeyMap<PK, Obj>                                                         *)
(***************************************************************************)
PKMin == -(PKMax + 1)
PK == PKMin..PKMax
Objs == 1..NumObj
NoKey == PKMin - 1

Keys(map) == {p[1] : p \in map}
contains_left(map, k) == k \in Keys(map)
get_by_right(map, o) == {p[1] : p \in {q \in map : q[2] = o}}

\* BiMap::insert overwrites: pairs sharing the key or the object are evicted.
BiMapInsert(map, k, o) ==
    {p \in map : p[1] # k /\ p[2] # o} \cup {<<k, o>>}

\* `while map.contains_left(&next_key) { next_key += PK::one(); }` from k.
\* The increment at PKMax overflows: a panic with overflow checks, a wrap to
\* PKMin without.  With every key used the wrapping loop never ends.
RECURSIVE ScanUp(_, _, _, _)
ScanUp(map, k, chk, fuel) ==
    IF ~contains_left(map, k) THEN [kind |-> "ok", key |-> k]
    ELSE IF fuel = 0 THEN [kind |-> "diverge", key |-> k]
    ELSE IF k = PKMax
         THEN IF chk THEN [kind |-> "panic", key |-> k]
              ELSE ScanUp(map, PKMin, chk, fuel - 1)
         ELSE ScanUp(map, k + 1, chk, fuel - 1)

calc_lowest_key(map, chk) == ScanUp(map, 0, chk, Cardinality(PK))

\* A scan that gives up after one increment.
calc_next_key_once(map, k, chk) ==
    IF ~contains_left(map, k) THEN [kind |-> "ok", key |-> k]
    ELSE IF k = PKMax
         THEN IF chk THEN [kind |-> "panic", key |-> k]
              ELSE [kind |-> "ok", key |-> PKMin]
         ELSE [kind |-> "ok", key |-> k + 1]

\* A cursor that is never advanced.
calc_next_key_stuck(map, k, chk) == [kind |-> "ok", key |-> k]

calc_next_key(map, k, chk) == ScanUp(map, k, chk, Cardinality(PK))

StatusOf(scan) ==
    CASE scan.kind = "ok" -> "ready"
      [] scan.kind = "panic" -> "panicked"
      [] OTHER -> "diverged"

\* The bijections KeyMap::from can be handed: every injective assignment of
\* objects to a set of keys.
Bijections ==
    UNION {{{<<k, f[k]>> : k \in S} :
              f \in {g \in [S -> Objs] : \A a, b \in S : a # b => g[a] # g[b]}} :
           S \in {T \in SUBSET PK : Cardinality(T) <= NumObj}}

KMIdle ==
    /\ bimap = {}
    /\ next_key = 0
    /\ km_status = "unbuilt"
    /\ km_last = "none"
    /\ ret_key = NoKey
    /\ db_rows = {}
    /\ pg_pc = "idle"
    /\ pg_result = "none"
    /\ pg_tx = {}
    /\ pg_calls = [prepare |-> 0, transaction |-> 0, execute |-> 0, commit |-> 0,
                   failed |-> 0]
    /\ pg_conn = FALSE
    /\ fe_pc = "idle"
    /\ fe_result = "none"
    /\ fe_bimap = {}
    /\ fe_next_key = 0

\* KeyMap::from(bimap)
From(b) ==
    /\ km_status = "unbuilt"
    /\ LET scan == calc_lowest_key(b, overflow_checks) IN
         /\ bimap' = b
         /\ next_key' = scan.key
         /\ km_status' = StatusOf(scan)
    /\ km_last' = "from"
    /\ UNCHANGED <<ret_key, pgVars, overflow_checks, dlVars, ldVars, foiVars>>

\* A transact that pushes the pair without looking the object up.
TransactBimapNoLookup(map, nk, o) == map \cup {<<nk, o>>}

\* The bijection transact leaves behind.
TransactBimap(map, nk, o) ==
    IF get_by_right(map, o) # {} THEN map ELSE BiMapInsert(map, nk, o)

\* A transact that hands out the cursor without looking the object up.
TransactKeyNoLookup(map, nk, o) == nk

\* The key transact returns: the object's own key on a hit, the cursor on a
\* miss.
TransactKey(map, nk, o) ==
    IF get_by_right(map, o) # {}
    THEN CHOOSE k \in get_by_right(map, o) : TRUE
    ELSE nk

\* KeyMap::transact(value)
Transact(o) ==
    /\ km_status = "ready"
    /\ bimap' = TransactBimap(bimap, next_key, o)
    /\ IF get_by_right(bimap, o) # {}
       THEN /\ ret_key' = TransactKey(bimap, next_key, o)
            /\ UNCHANGED <<next_key, km_status>>
       ELSE LET key == next_key
                scan == calc_next_key(bimap', key, overflow_checks)
            IN /\ next_key' = scan.key
               /\ km_status' = StatusOf(scan)
               /\ ret_key' = IF scan.kind = "ok"
                             THEN TransactKey(bimap, key, o) ELSE ret_key
    /\ km_last' = IF km_status' = "ready" THEN "transact" ELSE km_last
    /\ UNCHANGED <<pgVars, overflow_checks, dlVars, ldVars, foiVars>>

\* `pub bimap`: code outside KeyMap removes the pair of key k
\* (BiMap::remove_by_left); the cursor is not told.
Remove(k) ==
    /\ km_status = "ready"
    /\ contains_left(bimap, k)
    /\ bimap' = {p \in bimap : p[1] # k}
    /\ km_last' = "remove"
    /\ UNCHANGED <<next_key, km_status, ret_key, pgVars, overflow_checks,
                   dlVars, ldVars, foiVars>>

(***************************************************************************)
(* KeyMap::pg_insert / KeyMap::pg_fetch                                    *)
(***************************************************************************)
kmFields == <<bimap, next_key, km_status, km_last, ret_key>>
pgOthers == <<overflow_checks, kmFields, dlVars, ldVars, foiVars>>
feVars == <<fe_pc, fe_result, fe_bimap, fe_next_key>>
pgInsVars == <<pg_pc, pg_result, pg_tx, pg_calls, pg_conn>>

\* One more call of `what`, and one more failed call when it returned Err.
Called(what, ok) ==
    [pg_calls EXCEPT ![what] = @ + 1,
                     !.failed = @ + (IF ok THEN 0 ELSE 1)]

\* An error return by `?`: dropping `tx` rolls the transaction back, dropping
\* `pg_client` hands the connection back to the pool.
PgAbort ==
    /\ pg_result' = "Err"
    /\ pg_pc' = "done"
    /\ pg_tx' = {}
    /\ pg_conn' = FALSE
    /\ UNCHANGED db_rows

\* `pg_pool.get().await?`
PgInsGet(ok) ==
    /\ km_status = "ready"
    /\ pg_pc = "idle"
    /\ IF ok
       THEN /\ pg_pc' = "client"
            /\ pg_conn' = TRUE
            /\ UNCHANGED <<pg_result, pg_tx, db_rows>>
       ELSE PgAbort
    /\ UNCHANGED <<pg_calls, feVars, pgOthers>>

\* `pg_client.prepare(stmt).await ... ?`
PgInsPrepare(ok) ==
    /\ pg_pc = "client"
    /\ pg_calls' = Called("prepare", ok)
    /\ IF ok
       THEN /\ pg_pc' = "prepared"
            /\ UNCHANGED <<pg_result, pg_tx, pg_conn, db_rows>>
       ELSE PgAbort
    /\ UNCHANGED <<feVars, pgOthers>>

\* `pg_client.transaction().await ... ?`
PgInsBegin(ok) ==
    /\ pg_pc = "prepared"
    /\ pg_calls' = Called("transaction", ok)
    /\ IF ok
       THEN /\ pg_pc' = "tx"
            /\ UNCHANGED <<pg_result, pg_tx, pg_conn, db_rows>>
       ELSE PgAbort
    /\ UNCHANGED <<feVars, pgOthers>>

\* A loop that executes on the bare connection: the pairs written before the
\* failed execute stay in the table.
PgExecuteFailedAutocommit(p) ==
    /\ pg_result' = "Err"
    /\ pg_pc' = "done"
    /\ db_rows' = db_rows \cup pg_tx
    /\ pg_tx' = {}
    /\ pg_conn' = FALSE

\* `tx.execute(...).await.map_err(...)?` on an Err.
PgExecuteFailed(p) == PgAbort

\* One turn of `for (key, value) in self.bimap.iter()`: the pairs come in an
\* order the hash map picks.
PgInsExecute(p, ok) ==
    /\ pg_pc = "tx"
    /\ p \in bimap \ pg_tx
    /\ pg_calls' = Called("execute", ok)
    /\ IF ok
       THEN /\ pg_tx' = pg_tx \cup {p}
            /\ UNCHANGED <<pg_pc, pg_result, pg_conn, db_rows>>
       ELSE PgExecuteFailed(p)
    /\ UNCHANGED <<feVars, pgOthers>>

\* `tx.commit().await ... ?; Ok(())`: the store applies the transaction's
\* rows at once or not at all.
PgInsCommit(ok) ==
    /\ pg_pc = "tx"
    /\ pg_tx = bimap
    /\ pg_calls' = Called("commit", ok)
    /\ IF ok
       THEN /\ db_rows' = db_rows \cup pg_tx
            /\ pg_tx' = {}
            /\ pg_result' = "Ok"
            /\ pg_pc' = "done"
            /\ pg_conn' = FALSE
       ELSE PgAbort
    /\ UNCHANGED <<feVars, pgOthers>>

\* `.into_iter().map(..).collect()` into a BiMap: BiMap::insert row by row.
RECURSIVE Collect(_)
Collect(rows) ==
    IF rows = {} THEN {}
    ELSE LET p == CHOOSE q \in rows : TRUE
         IN BiMapInsert(Collect(rows \ {p}), p[1], p[2])

\* `pg_pool.get().await?` of pg_fetch
PgFetchGet(ok) ==
    /\ fe_pc = "idle"
    /\ IF ok
       THEN fe_pc' = "client" /\ UNCHANGED fe_result
       ELSE fe_pc' = "done" /\ fe_result' = "Err"
    /\ UNCHANGED <<fe_bimap, fe_next_key, db_rows, pgInsVars, pgOthers>>

\* A pg_fetch that starts its scan at the number of rows.
FetchLowestKeyFromLen(map, chk) ==
    ScanUp(map, Cardinality(map), chk, Cardinality(PK))

\* `Self::calc_lowest_key(&bimap)` of pg_fetch
FetchLowestKey(map, chk) == calc_lowest_key(map, chk)

\* The query (`.expect` panics when it fails), the collect and the scan.
PgFetchQuery(ok) ==
    /\ fe_pc = "client"
    /\ fe_pc' = "done"
    /\ IF ok
       THEN LET got == Collect(db_rows)
                scan == FetchLowestKey(got, overflow_checks)
            IN IF scan.kind = "ok"
               THEN /\ fe_bimap' = got
                    /\ fe_next_key' = scan.key
                    /\ fe_result' = "Ok"
               ELSE /\ fe_result' = "Panic"
                    /\ UNCHANGED <<fe_bimap, fe_next_key>>
       ELSE /\ fe_result' = "Panic"
            /\ UNCHANGED <<fe_bimap, fe_next_key>>
    /\ UNCHANGED <<db_rows, pgInsVars, pgOthers>>

(***************************************************************************)
(* download_file / download_chunk                                          *)
(***************************************************************************)
CHUNK_SIZE == 5     \* 100 MiB, scaled to the scaled u64
NoTask == 0

Min(a, b) == IF a <= b THEN a ELSE b
Max(a, b) == IF a >= b THEN a ELSE b

\* Byte i (0-based) of the remote resource.
Src(i) == i + 1
Source(n) == [i \in 1..n |-> Src(i - 1)]

\* `(file_size + CHUNK_SIZE - 1) / CHUNK_SIZE` in u64: the addition and the
\* subtraction each panic (overflow checks) or wrap.
NumChunks(fs, chk) ==
    LET sum == fs + CHUNK_SIZE
        a == sum % (MaxU64 + 1)
        b == (a - 1) % (MaxU64 + 1)
    IN IF chk /\ (sum > MaxU64 \/ a = 0)
       THEN [kind |-> "panic", n |-> 0]
       ELSE [kind |-> "ok", n |-> b \div CHUNK_SIZE]

\* The loop of lines 95-97: chunk i (from 0) is <<start, end>>.
ChunkOf(i, fs) ==
    <<(i * CHUNK_SIZE) % (MaxU64 + 1),
      Min(((i + 1) * CHUNK_SIZE) % (MaxU64 + 1), fs)>>
ChunkPlan(fs, n) == [j \in 1..n |-> ChunkOf(j - 1, fs)]

\* `Range: bytes=start-(end-1)`, an inclusive range, and the body a server
\* that honours it sends back.
RangeHeader(start, end) == <<start, end - 1>>
RangeBody(r) == [i \in 1..(r[2] - r[1] + 1) |-> Src(r[1] + i - 1)]

\* write_all of the first n bytes of body at the handle's cursor; a hole
\* between the old end of file and the cursor reads as zeros.
WriteAt(f, pos, body, n) ==
    [i \in 1..Max(Len(f), pos + n) |->
        IF i > pos /\ i <= pos + n THEN body[i - pos]
        ELSE IF i <= Len(f) THEN f[i] ELSE 0]

Tasks == 1..Len(chunks)

DLIdle ==
    /\ dl_pc = "start"
    /\ dl_result = "none"
    /\ file_size = 0
    /\ size_known = FALSE
    /\ chunks = <<>>
    /\ t_pc = <<>>
    /\ t_res = <<>>
    /\ t_resp = <<>>
    /\ lock = NoTask
    /\ file = <<>>
    /\ file_pos = 0
    /\ joined = 0

dlTaskVars == <<chunks, t_pc, t_res, t_resp, lock, file, file_pos, joined>>

\* Lines 75-81: the initial GET and the Content-Length header.  hdr is -1 for
\* an absent or unparsable header.
DlFetch(ok, hdr) ==
    /\ dl_pc = "start"
    /\ IF ok
       THEN /\ dl_pc' = "fetched"
            /\ file_size' = IF hdr < 0 THEN 0 ELSE hdr
            /\ size_known' = (hdr >= 0)
            /\ UNCHANGED dl_result
       ELSE /\ dl_pc' = "returned"
            /\ dl_result' = "Err"
            /\ UNCHANGED <<file_size, size_known>>
    /\ UNCHANGED <<dlTaskVars, overflow_checks, kmVars, ldVars, foiVars>>

\* Lines 84-113: the parent directory and the file are created, the chunks
\* are computed and one task per chunk is spawned.
DlSpawn(ok) ==
    /\ dl_pc = "fetched"
    /\ LET nc == NumChunks(file_size, overflow_checks) IN
       IF ~ok
       THEN /\ dl_pc' = "returned"
            /\ dl_result' = "Err"
            /\ UNCHANGED dlTaskVars
       ELSE IF nc.kind = "panic"
       THEN /\ dl_pc' = "returned"
            /\ dl_result' = "Panic"
            /\ UNCHANGED dlTaskVars
       ELSE /\ dl_pc' = "joining"
            /\ chunks' = ChunkPlan(file_size, nc.n)
            /\ t_pc' = [j \in 1..nc.n |-> "spawned"]
            /\ t_res' = [j \in 1..nc.n |-> "none"]
            /\ t_resp' = [j \in 1..nc.n |-> "none"]
            /\ UNCHANGED <<dl_result, lock, file, file_pos, joined>>
    /\ UNCHANGED <<file_size, size_known, overflow_checks, kmVars, ldVars, foiVars>>

dlMainVars == <<dl_pc, dl_result, file_size, size_known, chunks, joined>>

\* `file.lock().await`: granted when no task holds the mutex.
LockAlwaysAvailable == TRUE

LockAvailable == lock = NoTask

\* Line 102: the task takes the mutex, then download_chunk sends the request.
TaskLock(t) ==
    /\ t \in Tasks
    /\ t_pc[t] = "spawned"
    /\ LockAvailable
    /\ lock' = t
    /\ t_pc' = [t_pc EXCEPT ![t] = "request"]
    /\ UNCHANGED <<t_res, t_resp, file, file_pos, dlMainVars,
                   overflow_checks, kmVars, ldVars, foiVars>>

\* A failed task that never gives the mutex back.
TaskFailKeepsLock(t) ==
    /\ t_res' = [t_res EXCEPT ![t] = "err"]
    /\ t_pc' = [t_pc EXCEPT ![t] = "done"]
    /\ lock' = lock

\* download_chunk returned Err: line 110 prints it, the guard is dropped.
TaskFail(t) ==
    /\ t_res' = [t_res EXCEPT ![t] = "err"]
    /\ t_pc' = [t_pc EXCEPT ![t] = "done"]
    /\ lock' = IF lock = t THEN NoTask ELSE lock

\* Lines 50-62: the response arrives; anything but 206 is an error.
TaskResponse(t, r) ==
    /\ t \in Tasks
    /\ t_pc[t] = "request"
    /\ t_resp' = [t_resp EXCEPT ![t] = r]
    /\ IF r = "206"
       THEN /\ t_pc' = [t_pc EXCEPT ![t] = "body"]
            /\ UNCHANGED <<t_res, lock>>
       ELSE TaskFail(t)
    /\ UNCHANGED <<file, file_pos, dlMainVars, overflow_checks, kmVars, ldVars, foiVars>>

\* Line 65: the body is read in full, or the read fails.
TaskBody(t, ok) ==
    /\ t \in Tasks
    /\ t_pc[t] = "body"
    /\ IF ok
       THEN /\ t_pc' = [t_pc EXCEPT ![t] = "seek"]
            /\ UNCHANGED <<t_res, t_resp, lock>>
       ELSE /\ t_resp' = [t_resp EXCEPT ![t] = "error"]
            /\ TaskFail(t)
    /\ UNCHANGED <<file, file_pos, dlMainVars, overflow_checks, kmVars, ldVars, foiVars>>

\* Line 66: seek(SeekFrom::Start(start)) on the shared handle.
TaskSeek(t, ok) ==
    /\ t \in Tasks
    /\ t_pc[t] = "seek"
    /\ IF ok
       THEN /\ file_pos' = chunks[t][1]
            /\ t_pc' = [t_pc EXCEPT ![t] = "write"]
            /\ UNCHANGED <<t_res, lock>>
       ELSE /\ TaskFail(t)
            /\ UNCHANGED file_pos
    /\ UNCHANGED <<t_resp, file, dlMainVars, overflow_checks, kmVars, ldVars, foiVars>>

\* Line 67: write_all(&body) at the cursor; n bytes reach the file, and the
\* write failed when n is short of the body.
TaskWrite(t, n) ==
    /\ t \in Tasks
    /\ t_pc[t] = "write"
    /\ LET body == RangeBody(RangeHeader(chunks[t][1], chunks[t][2])) IN
         /\ n \in 0..Len(body)
         /\ file' = WriteAt(file, file_pos, body, n)
         /\ file_pos' = file_pos + n
         /\ IF n = Len(body)
            THEN /\ t_res' = [t_res EXCEPT ![t] = "ok"]
                 /\ t_pc' = [t_pc EXCEPT ![t] = "done"]
                 /\ lock' = IF lock = t THEN NoTask ELSE lock
            ELSE TaskFail(t)
    /\ UNCHANGED <<t_resp, dlMainVars, overflow_checks, kmVars, ldVars, foiVars>>

\* Lines 117-119: the join loop awaits the tasks in spawn order.
DlJoin ==
    /\ dl_pc = "joining"
    /\ joined < Len(chunks)
    /\ t_pc[joined + 1] = "done"
    /\ joined' = joined + 1
    /\ UNCHANGED <<dl_pc, dl_result, file_size, size_known, chunks, t_pc, t_res,
                   t_resp, lock, file, file_pos, overflow_checks, kmVars, ldVars, foiVars>>

\* A download that returns without awaiting the join handles.
NothingAwaited == TRUE

\* The loop of lines 117-119 has awaited every join handle.
AllJoined == joined = Len(chunks)

\* Line 121: Ok(()) whatever the tasks did.
DlReturn ==
    /\ dl_pc = "joining"
    /\ AllJoined
    /\ dl_pc' = "returned"
    /\ dl_result' = "Ok"
    /\ UNCHANGED <<file_size, size_known, dlTaskVars, overflow_checks, kmVars, ldVars, foiVars>>

(***************************************************************************)
(* PgLoadExt::insert / PgLoadExt::copy                                     *)
(***************************************************************************)
NCols == 2          \* parameters of the statement / declared column types
Arities == {NCols, NCols + 1}

RECURSIVE SeqsUpTo(_, _)
SeqsUpTo(S, n) ==
    IF n = 0 THEN {<<>>}
    ELSE LET shorter == SeqsUpTo(S, n - 1) IN
         shorter \cup {Append(q, x) : q \in {r \in shorter : Len(r) = n - 1}, x \in S}

LDIdleFor(op) ==
    /\ ld_op = op
    /\ ld_pc = "start"
    /\ ld_result = "none"
    /\ records = <<>>
    /\ exec_idx = 0
    /\ pending = <<>>
    /\ committed = <<>>
    /\ n_prepare = 0
    /\ n_tx = 0
    /\ n_exec = 0
    /\ n_commit = 0
    /\ sink = "none"
    /\ write_failed = FALSE
    /\ conn_out = FALSE

LDIdle == LDIdleFor("insert")

ldInput == <<ld_op, records>>
ldCounters == <<n_prepare, n_tx, n_exec, n_commit>>
ldOthers == <<overflow_checks, kmVars, dlVars, foiVars>>

\* An error return that keeps the client out of the pool.
LoadAbortLeak ==
    /\ ld_result' = "Err"
    /\ ld_pc' = "done"
    /\ pending' = <<>>
    /\ conn_out' = conn_out

\* A `?` return: the error goes to the caller, the dropped transaction rolls
\* back and the dropped client goes back to the pool.
LoadAbort ==
    /\ ld_result' = "Err"
    /\ ld_pc' = "done"
    /\ pending' = <<>>
    /\ conn_out' = FALSE

\* Lines 56 and 94: self.get().await?
LoadGet(ok) ==
    /\ ld_op \in {"insert", "copy"}
    /\ ld_pc = "start"
    /\ IF ok
       THEN /\ ld_pc' = "client"
            /\ conn_out' = TRUE
            /\ UNCHANGED <<ld_result, pending>>
       ELSE LoadAbort
    /\ UNCHANGED <<ldInput, exec_idx, committed, ldCounters, sink, write_failed, ldOthers>>

\* Line 59: pg_client.prepare(stmt).await?
InsPrepare(ok) ==
    /\ ld_op = "insert"
    /\ ld_pc = "client"
    /\ n_prepare' = n_prepare + 1
    /\ IF ok
       THEN /\ ld_pc' = "prepared"
            /\ UNCHANGED <<ld_result, pending, conn_out>>
       ELSE LoadAbort
    /\ UNCHANGED <<ldInput, exec_idx, committed, n_tx, n_exec, n_commit, sink,
                   write_failed, ldOthers>>

\* Lines 60 and 95: pg_client.transaction().await?
LoadBegin(ok) ==
    /\ ld_pc = IF ld_op = "insert" THEN "prepared" ELSE "client"
    /\ IF ok
       THEN /\ ld_pc' = "tx"
            /\ n_tx' = n_tx + 1
            /\ UNCHANGED <<ld_result, pending, conn_out>>
       ELSE /\ LoadAbort
            /\ UNCHANGED n_tx
    /\ UNCHANGED <<ldInput, exec_idx, committed, n_prepare, n_exec, n_commit, sink,
                   write_failed, ldOthers>>

\* An execute error that is logged while the loop goes on.
InsExecuteFailedContinue ==
    /\ exec_idx' = exec_idx + 1
    /\ UNCHANGED <<ld_result, ld_pc, pending, conn_out>>

\* Line 67: the `?` after tx.execute(...).await
InsExecuteFailed ==
    /\ LoadAbort
    /\ UNCHANGED exec_idx

\* Lines 64-67: one execute per record, in order.  A row whose arity is not
\* the statement's cannot succeed; any row may be refused by the store.
InsExecute(ok) ==
    /\ ld_op = "insert"
    /\ ld_pc = "tx"
    /\ exec_idx < Len(records)
    /\ ok => records[exec_idx + 1] = NCols
    /\ n_exec' = n_exec + 1
    /\ IF ok
       THEN /\ exec_idx' = exec_idx + 1
            /\ pending' = Append(pending, exec_idx + 1)
            /\ UNCHANGED <<ld_result, ld_pc, conn_out>>
       ELSE InsExecuteFailed
    /\ UNCHANGED <<ldInput, committed, n_prepare, n_tx, n_commit, sink, write_failed, ldOthers>>

\* Lines 81-85 and 112-116: tx.commit().await?, drop(pg_client), Ok(())
LoadCommit(ok) ==
    /\ \/ ld_op = "insert" /\ ld_pc = "tx" /\ exec_idx = Len(records)
       \/ ld_op = "copy" /\ ld_pc = "finished"
    /\ n_commit' = n_commit + 1
    /\ IF ok
       THEN /\ committed' = committed \o pending
            /\ pending' = <<>>
            /\ ld_result' = "Ok"
            /\ ld_pc' = "done"
            /\ conn_out' = FALSE
       ELSE /\ LoadAbort
            /\ UNCHANGED committed
    /\ UNCHANGED <<ldInput, exec_idx, n_prepare, n_tx, n_exec, sink, write_failed, ldOthers>>

\* Lines 96-97: tx.copy_in(stmt).await? and the BinaryCopyInWriter over it.
CopyIn(ok) ==
    /\ ld_op = "copy"
    /\ ld_pc = "tx"
    /\ IF ok
       THEN /\ ld_pc' = "sink"
            /\ sink' = "clean"
            /\ UNCHANGED <<ld_result, pending, conn_out>>
       ELSE /\ LoadAbort
            /\ UNCHANGED sink
    /\ UNCHANGED <<ldInput, exec_idx, committed, ldCounters, write_failed, ldOthers>>

\* Lines 102-107: writer.write per record; an Err is logged and the loop
\* goes on.  r is "ok", "rejected" (the row is refused before any of it is
\* encoded: the arity check) or "broken" (the stream itself failed).
CopyWrite(r) ==
    /\ ld_op = "copy"
    /\ ld_pc = "sink"
    /\ exec_idx < Len(records)
    /\ r = "ok" => records[exec_idx + 1] = NCols /\ sink = "clean"
    /\ r = "rejected" => sink = "clean"
    /\ exec_idx' = exec_idx + 1
    /\ pending' = IF r = "ok" THEN Append(pending, exec_idx + 1) ELSE pending
    /\ sink' = IF r = "broken" THEN "broken" ELSE sink
    /\ write_failed' = (write_failed \/ r # "ok")
    /\ UNCHANGED <<ldInput, ld_pc, ld_result, committed, ldCounters, conn_out, ldOthers>>

\* Line 111: writer.finish().await?  A broken stream cannot finish.
CopyFinish(ok) ==
    /\ ld_op = "copy"
    /\ ld_pc = "sink"
    /\ exec_idx = Len(records)
    /\ ok => sink = "clean"
    /\ IF ok
       THEN /\ ld_pc' = "finished"
            /\ UNCHANGED <<ld_result, pending, conn_out>>
       ELSE LoadAbort
    /\ UNCHANGED <<ldInput, exec_idx, committed, ldCounters, sink, write_failed, ldOthers>>

(***************************************************************************)
(* PgExtractExt::fetch_or_insert                                           *)
(***************************************************************************)
NumCallers == 2     \* concurrent fetch_or_insert calls with the same parameters
Callers == 1..NumCallers

FOIIdle ==
    /\ unique = TRUE
    /\ ins_returning = TRUE
    /\ table0 = 0
    /\ table = 0
    /\ f_pc = [c \in Callers |-> "start"]
    /\ f_ret = [c \in Callers |-> "none"]
    /\ n_fetch = [c \in Callers |-> 0]
    /\ n_insert = [c \in Callers |-> 0]
    /\ f1 = [c \in Callers |-> "none"]
    /\ ins_res = [c \in Callers |-> "none"]
    /\ f2 = [c \in Callers |-> "none"]
    /\ faults = 0

foiInput == <<unique, ins_returning, table0>>
foiOthers == <<overflow_checks, kmVars, dlVars, ldVars>>

\* A store fault may be injected while the budget lasts.
Fault(fault) ==
    /\ fault => faults < MaxFaults
    /\ faults' = IF fault THEN faults + 1 ELSE faults

\* query_one(fetch_stmt, params): Ok only for exactly one row.
QueryOneFetch(fault) ==
    IF fault THEN "error"
    ELSE IF table = 1 THEN "row"
    ELSE IF table = 0 THEN "norow" ELSE "many"

\* Line 76: self.get().await.expect(...)
FoiGet(c, fault) ==
    /\ f_pc[c] = "start"
    /\ Fault(fault)
    /\ IF fault
       THEN /\ f_pc' = [f_pc EXCEPT ![c] = "done"]
            /\ f_ret' = [f_ret EXCEPT ![c] = "Panic"]
       ELSE /\ f_pc' = [f_pc EXCEPT ![c] = "fetch1"]
            /\ UNCHANGED f_ret
    /\ UNCHANGED <<foiInput, table, n_fetch, n_insert, f1, ins_res, f2, foiOthers>>

\* Lines 79-84: the first query_one(fetch_stmt); any Err leads to the insert.
FoiFetch1(c, fault) ==
    /\ f_pc[c] = "fetch1"
    /\ Fault(fault)
    /\ n_fetch' = [n_fetch EXCEPT ![c] = @ + 1]
    /\ f1' = [f1 EXCEPT ![c] = QueryOneFetch(fault)]
    /\ IF f1'[c] = "row"
       THEN /\ f_pc' = [f_pc EXCEPT ![c] = "done"]
            /\ f_ret' = [f_ret EXCEPT ![c] = "Ok"]
       ELSE /\ f_pc' = [f_pc EXCEPT ![c] = "insert"]
            /\ UNCHANGED f_ret
    /\ UNCHANGED <<foiInput, table, n_insert, ins_res, f2, foiOthers>>

\* The store accepts the insert unless the uniqueness constraint forbids it.
InsertAccepted == ~(unique /\ table >= 1)

\* An insert whose row is taken back when query_one finds no result row.
TableAfterInsertUndone(t, r) == IF r = "ok" THEN t + 1 ELSE t

\* The statement runs on the bare client, outside any transaction: a row the
\* store accepted stays, whether or not the statement yielded a result row.
TableAfterInsert(t, r) == IF r \in {"ok", "norow"} THEN t + 1 ELSE t

\* Line 85: client.query_one(insert_stmt, params).await?  The row is written
\* when the store accepts it; query_one is Ok only if the statement yields
\* exactly one row.
FoiInsert(c, fault) ==
    /\ f_pc[c] = "insert"
    /\ Fault(fault)
    /\ n_insert' = [n_insert EXCEPT ![c] = @ + 1]
    /\ LET r == IF fault THEN "error"
                ELSE IF ~InsertAccepted THEN "rejected"
                ELSE IF ins_returning THEN "ok" ELSE "norow"
       IN /\ ins_res' = [ins_res EXCEPT ![c] = r]
          /\ table' = TableAfterInsert(table, r)
          /\ IF r = "ok"
             THEN /\ f_pc' = [f_pc EXCEPT ![c] = "fetch2"]
                  /\ UNCHANGED f_ret
             ELSE /\ f_pc' = [f_pc EXCEPT ![c] = "done"]
                  /\ f_ret' = [f_ret EXCEPT ![c] = "Err"]
    /\ UNCHANGED <<foiInput, n_fetch, f1, f2, foiOthers>>

\* A second fetch whose error is swallowed.
Fetch2ResultSwallowed(r) == "Ok"

\* Lines 86-98: Ok(data.get(0)) for a row, the error otherwise.
Fetch2Result(r) == IF r = "row" THEN "Ok" ELSE "Err"

\* Lines 86-98: the second query_one(fetch_stmt) decides the result.
FoiFetch2(c, fault) ==
    /\ f_pc[c] = "fetch2"
    /\ Fault(fault)
    /\ n_fetch' = [n_fetch EXCEPT ![c] = @ + 1]
    /\ f2' = [f2 EXCEPT ![c] = QueryOneFetch(fault)]
    /\ f_pc' = [f_pc EXCEPT ![c] = "done"]
    /\ f_ret' = [f_ret EXCEPT ![c] = Fetch2Result(f2'[c])]
    /\ UNCHANGED <<foiInput, table, n_insert, f1, ins_res, foiOthers>>

(***************************************************************************)
(* Specifications                                                          *)
(***************************************************************************)
InitKeyMap ==
    /\ overflow_checks \in BOOLEAN
    /\ KMIdle /\ DLIdle /\ LDIdle /\ FOIIdle

NextKeyMap ==
    \/ /\ km_status = "unbuilt"
       /\ \E b \in Bijections : From(b)
    \/ \E o \in Objs : Transact(o)

SpecKeyMap == InitKeyMap /\ [][NextKeyMap]_vars

\* A KeyMap whose public bijection is also edited from outside.
NextKeyMapRemove ==
    \/ NextKeyMap
    \/ \E k \in PK : Remove(k)
SpecKeyMapRemove == InitKeyMap /\ [][NextKeyMapRemove]_vars

\* A KeyMap that is built, used, persisted into the empty table and reloaded.
\* pg_insert borrows the KeyMap: no transact runs once it has started.
NextPgInsert ==
    \/ \E ok \in BOOLEAN : PgInsGet(ok)
    \/ \E ok \in BOOLEAN : PgInsPrepare(ok)
    \/ \E ok \in BOOLEAN : PgInsBegin(ok)
    \/ \E p \in bimap, ok \in BOOLEAN : PgInsExecute(p, ok)
    \/ \E ok \in BOOLEAN : PgInsCommit(ok)
NextKeyMapPg ==
    \/ km_status = "unbuilt" /\ \E b \in Bijections : From(b)
    \/ pg_pc = "idle" /\ \E o \in Objs : Transact(o)
    \/ NextPgInsert
    \/ pg_pc = "done" /\ \E ok \in BOOLEAN : PgFetchGet(ok)
    \/ \E ok \in BOOLEAN : PgFetchQuery(ok)
SpecKeyMapPg == InitKeyMap /\ [][NextKeyMapPg]_vars

InitDownload ==
    /\ overflow_checks \in BOOLEAN
    /\ KMIdle /\ DLIdle /\ LDIdle /\ FOIIdle

NextDownload ==
    \/ \E ok \in BOOLEAN, hdr \in -1..MaxU64 : DlFetch(ok, hdr)
    \/ \E ok \in BOOLEAN : DlSpawn(ok)
    \/ \E t \in Tasks : TaskLock(t)
    \/ \E t \in Tasks, r \in {"206", "other", "error"} : TaskResponse(t, r)
    \/ \E t \in Tasks, ok \in BOOLEAN : TaskBody(t, ok)
    \/ \E t \in Tasks, ok \in BOOLEAN : TaskSeek(t, ok)
    \/ \E t \in Tasks, n \in 0..CHUNK_SIZE : TaskWrite(t, n)
    \/ DlJoin
    \/ DlReturn

SpecDownload == InitDownload /\ [][NextDownload]_vars

\* The runtime keeps polling runnable tasks, file operations complete and
\* every request sent is answered at some point, with a status or an error:
\* while some step of the download can be taken, one is taken.
SpecDownloadFair == SpecDownload /\ WF_vars(NextDownload)

InitLoad ==
    /\ overflow_checks \in BOOLEAN
    /\ KMIdle /\ DLIdle /\ FOIIdle
    /\ ld_op \in {"insert", "copy"}
    /\ records \in SeqsUpTo(Arities, MaxRecords)
    /\ ld_pc = "start"
    /\ ld_result = "none"
    /\ exec_idx = 0
    /\ pending = <<>>
    /\ committed = <<>>
    /\ n_prepare = 0
    /\ n_tx = 0
    /\ n_exec = 0
    /\ n_commit = 0
    /\ sink = "none"
    /\ write_failed = FALSE
    /\ conn_out = FALSE

NextLoad ==
    \/ \E ok \in BOOLEAN : LoadGet(ok)
    \/ \E ok \in BOOLEAN : InsPrepare(ok)
    \/ \E ok \in BOOLEAN : LoadBegin(ok)
    \/ \E ok \in BOOLEAN : InsExecute(ok)
    \/ \E ok \in BOOLEAN : CopyIn(ok)
    \/ \E r \in {"ok", "rejected", "broken"} : CopyWrite(r)
    \/ \E ok \in BOOLEAN : CopyFinish(ok)
    \/ \E ok \in BOOLEAN : LoadCommit(ok)

SpecLoad == InitLoad /\ [][NextLoad]_vars

\* One call of insert, of copy, or of pg_insert on a KeyMap made by from.
InitPersist ==
    \/ InitLoad
    \/ /\ overflow_checks \in BOOLEAN
       /\ KMIdle /\ DLIdle /\ FOIIdle
       /\ LDIdleFor("pg_insert")
NextPersist ==
    \/ NextLoad
    \/ ld_op = "pg_insert" /\ km_status = "unbuilt"
          /\ \E b \in Bijections : From(b)
    \/ NextPgInsert
SpecPersist == InitPersist /\ [][NextPersist]_vars

InitFetchOrInsert ==
    /\ overflow_checks \in BOOLEAN
    /\ KMIdle /\ DLIdle /\ LDIdle
    /\ unique \in BOOLEAN
    /\ ins_returning \in BOOLEAN
    /\ table0 \in 0..1
    /\ table = table0
    /\ f_pc = [c \in Callers |-> "start"]
    /\ f_ret = [c \in Callers |-> "none"]
    /\ n_fetch = [c \in Callers |-> 0]
    /\ n_insert = [c \in Callers |-> 0]
    /\ f1 = [c \in Callers |-> "none"]
    /\ ins_res = [c \in Callers |-> "none"]
    /\ f2 = [c \in Callers |-> "none"]
    /\ faults = 0

NextFetchOrInsert ==
    \/ \E c \in Callers, fault \in BOOLEAN : FoiGet(c, fault)
    \/ \E c \in Callers, fault \in BOOLEAN : FoiFetch1(c, fault)
    \/ \E c \in Callers, fault \in BOOLEAN : FoiInsert(c, fault)
    \/ \E c \in Callers, fault \in BOOLEAN : FoiFetch2(c, fault)

SpecFetchOrInsert == InitFetchOrInsert /\ [][NextFetchOrInsert]_vars

(***************************************************************************)
(* Properties                                                              *)
(***************************************************************************)
LowestFree(map, nk) ==
    /\ ~contains_left(map, nk)
    /\ \A k \in 0..(nk - 1) : contains_left(map, k)

\* C1: after every transact call that returns, next_key is not a key of
\* bimap and every integer k with 0 <= k < next_key is a key of bimap.
C1_LowestFreeKey ==
    (km_status = "ready" /\ km_last = "transact") => LowestFree(bimap, next_key)

\* A transact allocated ret_key and the scan skipped a run of used keys.
C1_Witness ==
    /\ km_status = "ready"
    /\ km_last = "transact"
    /\ ret_key >= 0
    /\ next_key > ret_key + 1
    /\ contains_left(bimap, ret_key)

Bijective(map) ==
    \A p, q \in map : (p[1] = q[1] \/ p[2] = q[2]) => p = q

\* C2: in every reachable state bimap is a bijection: no two entries share
\* a key and no two entries share an object.
C2_Bijection == Bijective(bimap)

\* After a transact the bijection holds every object, the returned key
\* among its keys.
C2_Witness ==
    /\ km_last = "transact"
    /\ Cardinality(bimap) = NumObj
    /\ contains_left(bimap, ret_key)

\* C3: download_file returns Ok only if every chunk task's download_chunk
\* succeeded; a failed chunk is surfaced to the caller as an error.
C3_OkOnlyIfEveryChunkOk ==
    dl_result = "Ok" => \A t \in Tasks : t_res[t] = "ok"

\* C4: with the size known and every range request answered 206 with the
\* requested bytes, once download_file returns Ok the file holds exactly
\* file_size bytes, byte i equal to byte i of the source.
C4_FileEqualsSource ==
    (dl_result = "Ok" /\ size_known /\ \A t \in Tasks : t_resp[t] = "206")
        => file = Source(file_size)

\* The same without overflow in the chunk count and without local seek or
\* write errors: what the downloader does achieve.
FileEqualsSourceWhenEveryChunkOk ==
    (dl_result = "Ok" /\ file_size + CHUNK_SIZE - 1 <= MaxU64
        /\ \A t \in Tasks : t_res[t] = "ok")
        => file = Source(file_size)

Tiles(cs, fs) ==
    /\ \A i \in 0..(fs - 1) :
          Cardinality({j \in 1..Len(cs) : cs[j][1] <= i /\ i < cs[j][2]}) = 1
    /\ \A j \in 1..Len(cs) : cs[j][1] < cs[j][2] /\ cs[j][2] <= fs
    /\ Len(cs) > 0 =>
          cs[Len(cs)][2] - cs[Len(cs)][1] =
              IF fs % CHUNK_SIZE = 0 THEN CHUNK_SIZE ELSE fs % CHUNK_SIZE

ChunksComputed == dl_pc = "joining" \/ dl_result = "Ok"

\* C5: for any file_size the chunks download_file computes cover
\* [0, file_size) exactly once, each is non-empty, and the last one's length
\* is file_size mod CHUNK_SIZE, or CHUNK_SIZE when the remainder is zero.
C5_ChunkTiling == ChunksComputed => Tiles(chunks, file_size)

\* The tiling for sizes whose chunk count does not overflow.
ChunkTilingWithoutOverflow ==
    (ChunksComputed /\ file_size + CHUNK_SIZE - 1 <= MaxU64)
        => Tiles(chunks, file_size)

InSeekWrite(t) == t_pc[t] \in {"seek", "write"}

\* C6: at most one chunk task is inside its seek+write section, and no other
\* task moves the shared cursor between a task's seek and its write.
C6_SeekWriteExclusive ==
    /\ \A t, u \in Tasks : (InSeekWrite(t) /\ InSeekWrite(u)) => t = u
    /\ \A t \in Tasks : t_pc[t] = "write" => file_pos = chunks[t][1]

\* A task is between its seek and its write while another waits for the
\* lock and a third has already written.
C6_Witness ==
    \E t, u, v \in Tasks :
        /\ t_pc[t] = "write"
        /\ t_pc[u] = "spawned"
        /\ t_res[v] = "ok"
        /\ file_pos < Len(file)

AllRecords == [i \in 1..Len(records) |-> i]

\* C7: insert prepares once, opens one transaction, executes once per record
\* in order and commits once; rows are durable only after that commit; if
\* the prepare, an execute (a row of the wrong arity included) or the commit
\* fails, insert returns an error and no row of the batch is committed.
C7_InsertAllOrNothing ==
    ld_op = "insert" =>
        /\ n_prepare <= 1 /\ n_tx <= 1 /\ n_commit <= 1
        /\ n_tx = 1 => n_prepare = 1
        /\ n_exec <= Len(records)
        /\ pending = [i \in 1..Len(pending) |-> i]
        /\ committed # <<>> => ld_result = "Ok"
        /\ ld_result = "Ok" =>
              /\ committed = AllRecords
              /\ n_prepare = 1 /\ n_tx = 1 /\ n_commit = 1
              /\ n_exec = Len(records)
              /\ \A i \in 1..Len(records) : records[i] = NCols
        /\ ld_result = "Err" => committed = <<>>
        /\ ld_pc = "done" => ld_result \in {"Ok", "Err"}

\* The last record of a batch has the wrong arity: the executes before it
\* succeeded, insert returned an error and nothing is committed.
C7_Witness ==
    /\ ld_op = "insert"
    /\ ld_result = "Err"
    /\ Len(records) >= 2
    /\ n_exec = Len(records)
    /\ records[Len(records)] # NCols
    /\ committed = <<>>

\* C8: if writing any record's row to the copy encoder fails, copy returns
\* an error and commits nothing.
C8_CopyAbortsOnWriteError ==
    (ld_op = "copy" /\ write_failed /\ ld_pc = "done")
        => (ld_result = "Err" /\ committed = <<>>)

AllDone == \A c \in Callers : f_pc[c] = "done"
ByOwnInsert(c) == ins_res[c] = "ok" /\ f_ret[c] = "Ok"
ByFetch(c) == f1[c] = "row" /\ f_ret[c] = "Ok"

\* C9: concurrent fetch_or_insert calls with the same parameters on an empty
\* table with a uniqueness constraint end with exactly one row; one caller
\* succeeds through its own insert, every other one succeeds by fetching or
\* returns an error; a caller whose insert is rejected returns an error.
C9_RaceOutcome ==
    (unique /\ table0 = 0 /\ faults = 0 /\ AllDone) =>
        /\ table = 1
        /\ \E c \in Callers :
              /\ ByOwnInsert(c)
              /\ \A d \in Callers \ {c} : ByFetch(d) \/ f_ret[d] = "Err"
        /\ \A c \in Callers : ins_res[c] = "rejected" => f_ret[c] = "Err"

\* The same for an insert statement that yields the inserted row.
RaceOutcomeWhenInsertReturnsRow ==
    ins_returning => C9_RaceOutcome

Returned(c) == f_pc[c] = "done" /\ f_ret[c] # "Panic"

C11_TransactIdempotent ==
    [][\A o \in Objs :
          (Transact(o) /\ km_status' = "ready") =>
             /\ <<ret_key', o>> \in bimap'
             /\ get_by_right(bimap, o) # {} =>
                   /\ bimap' = bimap
                   /\ next_key' = next_key
                   /\ <<ret_key', o>> \in bimap]_vars

\* A repeated transact answered from the bijection: the returned key lies
\* above the cursor, which a fresh allocation never leaves behind.
C11_Witness ==
    /\ km_status = "ready" /\ km_last = "transact"
    /\ 0 <= next_key /\ next_key < ret_key
    /\ ret_key \in Keys(bimap)

\* The lowest non-negative key that is not a key of the bijection.
HasFree(map) == \E k \in 0..PKMax : ~contains_left(map, k)
MinFree(map) ==
    CHOOSE k \in 0..PKMax :
        ~contains_left(map, k) /\ \A j \in 0..(k - 1) : contains_left(map, j)

\* C12: when a key below next_key is free (its pair was removed from outside),
\* the next transact of a new object returns the lowest free key.
C12_BackfillsLowestGap ==
    [][\A o \in Objs :
          (/\ Transact(o)
           /\ get_by_right(bimap, o) = {}
           /\ km_status' = "ready"
           /\ \E k \in 0..(next_key - 1) : ~contains_left(bimap, k))
          => ret_key' = MinFree(bimap)]_vars

\* What the code does instead: a transact of a new object allocates the
\* cursor, wherever the gaps are.
AllocatesTheCursor ==
    [][\A o \in Objs :
          (Transact(o) /\ get_by_right(bimap, o) = {} /\ km_status' = "ready")
          => ret_key' = next_key]_vars

\* C13: a KeyMap built by from and transact calls, written by a pg_insert that
\* returns Ok into the empty table and read back by a pg_fetch that returns
\* Ok, comes back with the same bijection and the same next_key.
C13_RoundTrip ==
    (pg_result = "Ok" /\ fe_result = "Ok") =>
        /\ fe_bimap = bimap
        /\ fe_next_key = next_key

\* A round trip of a KeyMap that transact has grown to at least two pairs,
\* with a used key above its cursor.
C13_Witness ==
    /\ pg_result = "Ok" /\ fe_result = "Ok"
    /\ km_last = "transact"
    /\ Cardinality(bimap) >= 2
    /\ \E k \in Keys(bimap) : k > next_key /\ next_key >= 0

\* C14: a pg_insert that has returned prepared at most once, opened at most
\* one transaction and committed at most once; one that returned Ok did each
\* exactly once, executed once per pair, and the table holds every pair; if
\* the prepare, the transaction open, an execute or the commit failed, the
\* call returned Err and no pair is in the table.
C14_PgInsertAtomic ==
    pg_pc = "done" =>
        /\ pg_calls.prepare <= 1 /\ pg_calls.transaction <= 1
        /\ pg_calls.commit <= 1 /\ pg_calls.execute <= Cardinality(bimap)
        /\ pg_result = "Ok" =>
              /\ pg_calls = [prepare |-> 1, transaction |-> 1,
                             execute |-> Cardinality(bimap), commit |-> 1,
                             failed |-> 0]
              /\ db_rows = bimap
        /\ pg_calls.failed > 0 => pg_result = "Err"
        /\ pg_result = "Err" => db_rows = {}

\* An execute fails after another pair was written inside the transaction.
C14_Witness ==
    /\ pg_pc = "done" /\ pg_result = "Err"
    /\ pg_calls.execute >= 2 /\ pg_calls.commit = 0
    /\ pg_calls.failed = 1

\* min{k >= 0 : k is not a key of map}, taken in the integers: one above
\* PKMax when every non-negative key of the key type is used.
MinFreeNat(map) ==
    CHOOSE k \in 0..(PKMax + 1) :
        ~contains_left(map, k) /\ \A j \in 0..(k - 1) : contains_left(map, j)

\* C15: the KeyMap that KeyMap::from(b) returns, and the one pg_fetch returns
\* over the table's rows, holds the bijection it was given and
\* next_key = min{k >= 0 : k is not a key}.
C15_ConstructorsSetCursor ==
    /\ (km_status = "ready" /\ km_last = "from") =>
           next_key = MinFreeNat(bimap)
    /\ fe_result = "Ok" =>
           fe_bimap = db_rows /\ fe_next_key = MinFreeNat(db_rows)

\* The same while some non-negative key of the key type is free.
ConstructorsSetCursorWhenFree ==
    /\ (km_status = "ready" /\ km_last = "from" /\ HasFree(bimap)) =>
           next_key = MinFree(bimap)
    /\ (fe_result = "Ok" /\ HasFree(db_rows)) =>
           fe_bimap = db_rows /\ fe_next_key = MinFree(db_rows)

\* C16: when the initial response carries no usable Content-Length, the
\* download consists of exactly one chunk task.
C16_UnknownSizeSingleChunk ==
    (ChunksComputed /\ ~size_known) => Len(chunks) = 1

\* What the code does instead: no chunk task at all, and an empty file.
UnknownSizeNoChunk ==
    (ChunksComputed /\ ~size_known) => (chunks = <<>> /\ file = <<>>)

\* C17: once download_file has returned, every spawned chunk task has
\* finished: none is waiting for the lock, fetching or writing, and the file
\* lock is free.
C17_ReturnsAfterEveryTask ==
    dl_pc = "returned" =>
        /\ \A t \in Tasks : t_pc[t] = "done" /\ t_res[t] # "none"
        /\ lock = NoTask

\* A return after several tasks, one that failed and one that succeeded.
C17_Witness ==
    /\ dl_pc = "returned"
    /\ Len(chunks) >= 2
    /\ \E t, u \in Tasks : t_res[t] = "err" /\ t_res[u] = "ok"

C19_TransactNewObject ==
    [][\A o \in Objs :
          (Transact(o) /\ get_by_right(bimap, o) = {} /\ km_status' = "ready")
          => /\ ret_key' = next_key
             /\ bimap' = bimap \cup {<<next_key, o>>}
             /\ next_key' > next_key
             /\ ~contains_left(bimap', next_key')
             /\ \A k \in next_key..(next_key' - 1) : contains_left(bimap', k)]_vars

\* The same for an allocation whose scan does not run past PKMax.
TransactNewObjectBelowMax ==
    [][\A o \in Objs :
          (/\ Transact(o) /\ get_by_right(bimap, o) = {} /\ km_status' = "ready"
           /\ \E k \in (next_key + 1)..PKMax : ~contains_left(bimap, k))
          => /\ ret_key' = next_key
             /\ bimap' = bimap \cup {<<next_key, o>>}
             /\ next_key' > next_key
             /\ ~contains_left(bimap', next_key')
             /\ \A k \in next_key..(next_key' - 1) : contains_left(bimap', k)]_vars

\* A task whose range request is out: sent and not yet answered in full.
InFlight(t) == t_pc[t] \in {"request", "body"}

\* C20: a chunk task holds the file lock only while it seeks and writes, not
\* while its range request is in flight.
C20_LockOnlyForSeekWrite ==
    \A t \in Tasks : lock = t => InSeekWrite(t)

\* What the code does instead: the lock is taken before the request is sent,
\* so no two range requests are ever in flight together.
RangeRequestsSerialised ==
    \A t, u \in Tasks : (InFlight(t) /\ InFlight(u)) => t = u

\* C21: on a KeyMap made by from and used through transact only, a transact
\* removes and changes no pair; it adds none when its object is present and
\* exactly one when it is not, and a transact of an object that has a key
\* returns that key.
C21_StableAssignments ==
    [][\A o \in Objs :
          Transact(o) =>
             /\ bimap \subseteq bimap'
             /\ Cardinality(bimap') =
                   Cardinality(bimap) + (IF get_by_right(bimap, o) = {} THEN 1 ELSE 0)
             /\ \A p \in bimap :
                   (p[2] = o /\ km_status' = "ready") => ret_key' = p[1]]_vars

\* Every object holds a key, the last one allocated by a transact next to
\* pairs that were there before, one of them above the allocated key.
C21_Witness ==
    /\ km_status = "ready" /\ km_last = "transact"
    /\ Cardinality(bimap) = NumObj
    /\ 0 <= ret_key /\ ret_key < next_key
    /\ \E k \in Keys(bimap) : k > next_key

\* C22: a transact that starts from a non-negative cursor leaves next_key
\* non-negative, within the key type and unused, and a key it allocates is
\* non-negative: the upward scan does not wrap around.
C22_NoWrapAround ==
    [][\A o \in Objs :
          (Transact(o) /\ next_key >= 0 /\ km_status' = "ready")
          => /\ next_key' \in 0..PKMax
             /\ ~contains_left(bimap', next_key')
             /\ get_by_right(bimap, o) = {} => ret_key' \in 0..PKMax]_vars

\* What the code does at the end of the key type: with overflow checks the
\* transact that allocates PKMax panics, without them the cursor wraps to the
\* negative keys and stays on a free one.
WrapsOrPanicsAtMax ==
    [][\A o \in Objs :
          (/\ Transact(o) /\ next_key >= 0 /\ get_by_right(bimap, o) = {}
           /\ \A k \in next_key..PKMax : k = next_key \/ contains_left(bimap, k))
          => IF overflow_checks
             THEN km_status' = "panicked"
             ELSE next_key' < 0 /\ ~contains_left(bimap', next_key')]_vars

\* The callers whose insert the store accepted.
Inserted == {c \in Callers : ins_res[c] \in {"ok", "norow"}}

C24_NoDeadlock ==
    /\ [](\A t \in Tasks : t_pc[t] = "done" => lock # t)
    /\ [](dl_pc = "joining" => <>(\A t \in Tasks : t_pc[t] = "done" /\ t_res[t] # "none"))
    /\ <>(dl_pc = "returned")

\* A download of several chunks that returned although every download_chunk
\* failed while holding the lock.
C24_Witness ==
    /\ dl_pc = "returned" /\ dl_result = "Ok"
    /\ Len(chunks) >= 2
    /\ \A t \in Tasks : t_res[t] = "err" /\ t_resp[t] # "none"

=============================================================================
